---- MODULE Spec2Model ----
(***************************************************************************)
(* Model of src/app.py: the P&L / tax-estimate pipeline.                   *)
(*                                                                         *)
(*   parse_sales_summary     raw two-column table  -> label -> amount      *)
(*   parse_expenses          raw ledger table      -> categorised records  *)
(*   build_report_and_tables summary, ledger, tips -> table, text, profit  *)
(*   calc_hanover_tax_text   profit, two rates     -> tax breakdown        *)
(*                                                                         *)
(* Each function is run by its own specification (SpecExpenses, SpecSales, *)
(* SpecPnL, SpecTax): Init draws the function's input from a bounded set   *)
(* and the actions are the function's steps.  The variables of the other   *)
(* functions stay at their idle values.  SpecSession runs the page: the    *)
(* button handlers call the four functions on the uploaded files and keep  *)
(* the results in st.session_state.                                        *)
(*                                                                         *)
(* Conventions.  Money is an integer.  A raw cell is a string; a blank     *)
(* cell, which pandas reads as NaN, is the string NaNCell, and Python's    *)
(* None is the string None.  Row and loop indices are 0-based as in the    *)
(* source; a TLA+ sequence holding rows is read at index + 1.              *)
(***************************************************************************)
EXTENDS Integers, Sequences, FiniteSets, TLC

VARIABLES
    pc,              \* which function is running, or "done", or "idle"
    \* parse_expenses
    exp_df,          \* the raw ledger table
    i,               \* index of the row the loop is at
    curr_cat,        \* the carried category
    expenses_list,   \* the records emitted so far
    \* parse_sales_summary
    s_df,            \* the raw sales table
    si,              \* index of the row the loop is at
    out,             \* the mapping built so far
    \* build_report_and_tables
    sales_summary,   \* the parsed sales summary (a dict)
    expenses_df,     \* the parsed ledger
    include_tips,    \* the Include Tips checkbox
    last_pnl_data,   \* the table returned
    rep,             \* the report text returned, line by line
    net_profit,      \* the scalar returned
    \* calc_hanover_tax_text
    net,             \* the profit taxed, in cents
    fed_income_rate, \* the federal rate, in tenths of a percent
    local_eit_rate,  \* the local rate, in tenths of a percent
    tax,             \* the function's locals when it returns
    txt,             \* the tax report text returned, line by line
    \* the page: widgets and st.session_state
    sales_file,      \* the sales uploader's file
    exp_file,        \* the expenses uploader's file
    sales_df,        \* st.session_state.sales_df
    exp_df_raw,      \* st.session_state.exp_df_raw
    report_text,     \* st.session_state.report_text
    tax_text,        \* st.session_state.tax_text
    message          \* the st.error / st.success box of the last run

expVars == <<exp_df, i, curr_cat, expenses_list>>
salesVars == <<s_df, si, out>>
pnlVars == <<sales_summary, expenses_df, include_tips, last_pnl_data, rep, net_profit>>
taxVars == <<net, fed_income_rate, local_eit_rate, tax, txt>>
uiVars == <<sales_file, exp_file, sales_df, exp_df_raw, report_text, tax_text, message>>

vars == <<pc, expVars, salesVars, pnlVars, taxVars, uiVars>>

\* A blank cell (pandas NaN) and Python's None.
NaNCell == "<NaN>"
None == "<None>"

\* The values the variables of a function hold while another one runs.
IdleExpenses == exp_df = <<>> /\ i = 0 /\ curr_cat = None /\ expenses_list = <<>>
IdleSales == s_df = <<>> /\ si = 0 /\ out = <<>>
IdlePnL ==
    /\ sales_summary = <<>> /\ expenses_df = <<>> /\ include_tips = TRUE
    /\ last_pnl_data = <<>> /\ rep = <<>> /\ net_profit = 0
IdleTax ==
    /\ net = 0 /\ fed_income_rate = 0 /\ local_eit_rate = 0
    /\ tax = <<>> /\ txt = <<>>
IdleSession ==
    /\ sales_file = <<>> /\ exp_file = <<>>
    /\ sales_df = <<>> /\ exp_df_raw = <<>>
    /\ report_text = <<>> /\ tax_text = <<>> /\ message = ""

\* ------------------------------------------------------------------------
\* Cell conversions used by both parsers
\* ------------------------------------------------------------------------

\* str(cell): a blank cell stringifies to "nan".
Str(cell) == IF cell = NaNCell THEN "nan" ELSE cell

\* s.strip(), over the cells of the model that carry outer whitespace.
Strip(s) ==
    CASE s = " Back Bar " -> "Back Bar"
      [] s = " Vendor"    -> "Vendor"
      [] s = " Net Sales" -> "Net Sales"
      [] s = "  "         -> ""
      [] OTHER            -> s

\* sub in s, for the two substrings the ledger parser looks for.
Contains(s, sub) ==
    CASE sub = "Total Expenses" -> s \in {"Total Expenses", "Q1 Total Expenses"}
      [] sub = "Report"         -> s \in {"Expense Report"}
      [] OTHER                  -> FALSE

\* ------------------------------------------------------------------------
\* parse_expenses
\* ------------------------------------------------------------------------

MaxRows == 4

\* The rows a ledger export is made of: <<cell 0, cell 1, cell 2, cell 3>>.
LedgerRows ==
    { <<" Back Bar ", NaNCell, NaNCell, NaNCell>>,          \* a category title
      <<"Vendor", "Memo", "Date", "Amount">>,               \* column headers
      <<" Vendor", "Memo", "Date", "Amount">>,              \* the same, indented
      <<"Acme", "lashes", "2024-01-05", "1,200.00">>,       \* a clean data row
      <<"Acme", "glue", "n/a", "100">>,                     \* date does not parse
      <<"Bolt", "tape", "2024-02-01", "abc">>,              \* amount does not parse
      <<"Bolt", "misc", "2024-02-01", NaNCell>>,            \* blank amount
      <<"Total", NaNCell, NaNCell, "$1,300.00">>,           \* a subtotal
      <<"Expense Report", NaNCell, NaNCell, NaNCell>> }     \* the export's title

\* The rows of an export that has two columns only.
NarrowLedgerRows ==
    { <<" Back Bar ", NaNCell>>, <<"Vendor", "Memo">>, <<"Acme", "lashes">> }

Tables(rows, n) == UNION { [1..k -> rows] : k \in 0..n }

\* row.iloc[k] and exp_df.iloc[r, k]
Cell(row, k) == row[k + 1]
RowAt(df, r) == df[r + 1]

\* pd.to_datetime(x, errors="coerce"): a date, or NaT.
NaT == "<NaT>"
ToDatetime(x) ==
    CASE x = "2024-01-05" -> "2024-01-05T00:00:00"
      [] x = "2024-02-01" -> "2024-02-01T00:00:00"
      [] OTHER            -> NaT

\* str(x).replace(",", "").replace("$", "")
StripMoney(s) ==
    CASE s = "1,200.00"  -> "1200.00"
      [] s = "$1,300.00" -> "1300.00"
      [] OTHER           -> s

\* float(s): <<"num", n>>, <<"nan", 0>> for the text "nan", or a ValueError.
ValueError == <<"ValueError", 0>>
Float(s) ==
    CASE s = "1200.00" -> <<"num", 1200>>
      [] s = "1300.00" -> <<"num", 1300>>
      [] s = "100"     -> <<"num", 100>>
      [] s = "250"     -> <<"num", 250>>
      [] s = "nan"     -> <<"nan", 0>>
      [] OTHER         -> ValueError

\* line 112
C0(df, r) == Strip(Str(Cell(RowAt(df, r), 0)))

\* line 114
IsTotalRow(c0) == c0 = "Total" \/ Contains(c0, "Total Expenses")

\* line 117
IsCandidate(c0) ==
    c0 # "" /\ c0 # "nan" /\ c0 # "Vendor" /\ ~Contains(c0, "Report")

\* line 118: the lookahead compares the next row's cell unstripped.
NextIsVendorMut(df, r) ==
    r + 1 < Len(df) /\ Strip(Str(Cell(RowAt(df, r + 1), 0))) = "Vendor"

NextIsVendor(df, r) ==
    r + 1 < Len(df) /\ Str(Cell(RowAt(df, r + 1), 0)) = "Vendor"

\* line 120: a category is in force
Truthy(cat) == cat # None /\ cat # ""

\* lines 121-129: what the try block does with a data row.  raised: the
\* row has no cell 2 or 3 (row.iloc raises IndexError) or float() raised, and
\* the except clause passed; appended: the records added to expenses_list,
\* none when it raised or when the date is NaT.
TryRowMut(cat, row) ==
    IF Len(row) < 4 THEN [raised |-> TRUE, appended |-> <<>>]
    ELSE
    LET date_val == ToDatetime(Cell(row, 2))
        amount_val == Float(StripMoney(Str(Cell(row, 3))))
    IN  [raised |-> amount_val = ValueError,
         appended |->
            IF date_val # NaT
            THEN << [Category |-> cat, Vendor |-> Cell(row, 0),
                     Date |-> date_val, Amount |-> amount_val] >>
            ELSE <<>>]

TryRow(cat, row) ==
    IF Len(row) < 4 THEN [raised |-> TRUE, appended |-> <<>>]
    ELSE
    LET date_val == ToDatetime(Cell(row, 2))
        amount_val == Float(StripMoney(Str(Cell(row, 3))))
    IN  [raised |-> amount_val = ValueError,
         appended |->
            IF amount_val # ValueError /\ date_val # NaT
            THEN << [Category |-> cat, Vendor |-> Cell(row, 0),
                     Date |-> date_val, Amount |-> amount_val] >>
            ELSE <<>>]

InitExpenses ==
    /\ pc = "parse_expenses"
    /\ exp_df \in Tables(LedgerRows, MaxRows) \cup Tables(NarrowLedgerRows, MaxRows)
    /\ i = 0
    /\ curr_cat = None
    /\ expenses_list = <<>>
    /\ IdleSales /\ IdlePnL /\ IdleTax /\ IdleSession

ExpAtRow == pc = "parse_expenses" /\ i < Len(exp_df)

\* lines 114-115: a subtotal row is skipped
ExpSkipTotal ==
    /\ ExpAtRow
    /\ IsTotalRow(C0(exp_df, i))
    /\ i' = i + 1
    /\ UNCHANGED <<pc, exp_df, curr_cat, expenses_list, salesVars, pnlVars, taxVars, uiVars>>

\* line 117 false, or line 120 false: the row falls through every branch
ExpIgnoreRow ==
    /\ ExpAtRow
    /\ ~IsTotalRow(C0(exp_df, i))
    /\ \/ ~IsCandidate(C0(exp_df, i))
       \/ /\ ~NextIsVendor(exp_df, i)
          /\ ~Truthy(curr_cat)
    /\ i' = i + 1
    /\ UNCHANGED <<pc, exp_df, curr_cat, expenses_list, salesVars, pnlVars, taxVars, uiVars>>

\* lines 118-119: the lookahead makes the row the category
ExpSetCategory ==
    /\ ExpAtRow
    /\ ~IsTotalRow(C0(exp_df, i))
    /\ IsCandidate(C0(exp_df, i))
    /\ NextIsVendor(exp_df, i)
    /\ curr_cat' = C0(exp_df, i)
    /\ i' = i + 1
    /\ UNCHANGED <<pc, exp_df, expenses_list, salesVars, pnlVars, taxVars, uiVars>>

ExpIsDataRow ==
    /\ ExpAtRow
    /\ ~IsTotalRow(C0(exp_df, i))
    /\ IsCandidate(C0(exp_df, i))
    /\ ~NextIsVendor(exp_df, i)
    /\ Truthy(curr_cat)

\* lines 120-127: the row parses and is appended
ExpEmit ==
    /\ ExpIsDataRow
    /\ TryRow(curr_cat, RowAt(exp_df, i)).appended # <<>>
    /\ expenses_list' = expenses_list \o TryRow(curr_cat, RowAt(exp_df, i)).appended
    /\ i' = i + 1
    /\ UNCHANGED <<pc, exp_df, curr_cat, salesVars, pnlVars, taxVars, uiVars>>

\* lines 124, 128-129: NaT date, or float() raised and the except passes
ExpDrop ==
    /\ ExpIsDataRow
    /\ TryRow(curr_cat, RowAt(exp_df, i)).appended = <<>>
    /\ i' = i + 1
    /\ UNCHANGED <<pc, exp_df, curr_cat, expenses_list, salesVars, pnlVars, taxVars, uiVars>>

\* line 131
ExpReturn ==
    /\ pc = "parse_expenses"
    /\ i >= Len(exp_df)
    /\ pc' = "done"
    /\ UNCHANGED <<expVars, salesVars, pnlVars, taxVars, uiVars>>

NextExpenses ==
    \/ ExpSkipTotal
    \/ ExpIgnoreRow
    \/ ExpSetCategory
    \/ ExpEmit
    \/ ExpDrop
    \/ ExpReturn

SpecExpenses == InitExpenses /\ [][NextExpenses]_vars

\* ------------------------------------------------------------------------
\* parse_expenses: properties
\* ------------------------------------------------------------------------

\* Row j of the ledger is followed by a row whose first cell is "Vendor".
FollowedByVendor(j) ==
    j + 1 < Len(exp_df) /\ Str(exp_df[j + 2][1]) = "Vendor"

Last(seq) == seq[Len(seq)]

\* C1: a record is emitted only under a category that is the (trimmed) first
\* cell of an earlier row followed by a "Vendor" row; the row being emitted
\* is not itself followed by a "Vendor" row; so nothing is emitted before
\* the first category is established.
C1_CategoryEstablished ==
    [][ Len(expenses_list') > Len(expenses_list) =>
          /\ ~FollowedByVendor(i)
          /\ \E j \in 0..(i - 1) :
                /\ FollowedByVendor(j)
                /\ Last(expenses_list').Category = Strip(Str(exp_df[j + 1][1])) ]_vars

\* C1 witness: a four-row ledger whose first row is a data-like row met
\* before any category (dropped) and which still ends with a record emitted.
C1_Witness ==
    /\ pc = "done"
    /\ Len(exp_df) = 4
    /\ exp_df[1][1] = "Acme"
    /\ FollowedByVendor(1)
    /\ Len(expenses_list) = 1
    /\ expenses_list[1].Category = "Back Bar"

\* A row that starts a category, a row that is a data candidate, and a data
\* candidate that parses, stated over the raw table.
C9_IsHeader(j) ==
    LET c == Strip(Str(exp_df[j + 1][1]))
    IN  /\ c \notin {"", "nan", "Vendor", "Total"}
        /\ ~Contains(c, "Total Expenses") /\ ~Contains(c, "Report")
        /\ FollowedByVendor(j)

C9_InForce(n) ==
    IF \E j \in 0..(n - 1) : C9_IsHeader(j)
    THEN LET j == CHOOSE k \in 0..(n - 1) :
                    C9_IsHeader(k) /\ \A m \in (k + 1)..(n - 1) : ~C9_IsHeader(m)
         IN  Strip(Str(exp_df[j + 1][1]))
    ELSE None

C9_IsData(j) ==
    LET c == Strip(Str(exp_df[j + 1][1]))
    IN  /\ c \notin {"", "nan", "Vendor", "Total"}
        /\ ~Contains(c, "Total Expenses") /\ ~Contains(c, "Report")
        /\ ~FollowedByVendor(j)
        /\ C9_InForce(j) # None

C9_WellFormed(j) ==
    /\ Len(exp_df[j + 1]) >= 4
    /\ ToDatetime(exp_df[j + 1][3]) # NaT
    /\ Float(StripMoney(Str(exp_df[j + 1][4]))) # ValueError

\* The records of the well-formed data rows among the first n rows, in row
\* order, each under the category in force at its row.
RECURSIVE C9_Expected(_)
C9_Expected(n) ==
    IF n = 0 THEN <<>>
    ELSE LET j == n - 1
         IN  IF C9_IsData(j) /\ C9_WellFormed(j)
             THEN Append(C9_Expected(j),
                         [Category |-> C9_InForce(j),
                          Vendor |-> exp_df[j + 1][1],
                          Date |-> ToDatetime(exp_df[j + 1][3]),
                          Amount |-> Float(StripMoney(Str(exp_df[j + 1][4])))])
             ELSE C9_Expected(j)

MaxSalesRows == 3

SalesKeys == {"Net Sales", " Net Sales", "Tax", NaNCell}
SalesValues == {"100", "250", "abc", NaNCell}

\* A sales table has one width for all its rows: one column, or two.
SalesTables(n) ==
    Tables({ <<k>> : k \in SalesKeys }, n)
        \cup Tables({ <<k, v>> : k \in SalesKeys, v \in SalesValues }, n)

\* pd.notna(v)
NotNa(v) == v # NaNCell /\ v # None

\* The dict out is a sequence of <<key, value>> pairs in insertion order.
DictKeys(d) == { d[n][1] : n \in 1..Len(d) }
DictGet(d, k) == (CHOOSE n \in 1..Len(d) : d[n][1] = k)

\* out[k] = x
DictSetMut(d, k, x) ==
    IF k \in DictKeys(d) THEN d ELSE Append(d, <<k, x>>)

DictSet(d, k, x) ==
    IF k \in DictKeys(d)
    THEN [d EXCEPT ![DictGet(d, k)] = <<k, x>>]
    ELSE Append(d, <<k, x>>)

\* line 97
SalesKey(row) == Strip(Str(Cell(row, 0)))
\* line 98
SalesValue(row) == IF Len(row) > 1 THEN Cell(row, 1) ELSE None
\* line 99
SalesAccepts(row) ==
    SalesKey(row) # "" /\ SalesKey(row) # "nan" /\ NotNa(SalesValue(row))

InitSales ==
    /\ pc = "parse_sales_summary"
    /\ s_df \in SalesTables(MaxSalesRows)
    /\ si = 0
    /\ out = <<>>
    /\ IdleExpenses /\ IdlePnL /\ IdleTax /\ IdleSession

SalesAtRow == pc = "parse_sales_summary" /\ si < Len(s_df)

\* line 99 false: the row is skipped
SalesSkipRow ==
    /\ SalesAtRow
    /\ ~SalesAccepts(RowAt(s_df, si))
    /\ si' = si + 1
    /\ UNCHANGED <<pc, s_df, out, expVars, pnlVars, taxVars, uiVars>>

\* lines 100-101: float(v) succeeds and is stored under k
SalesStore ==
    /\ SalesAtRow
    /\ SalesAccepts(RowAt(s_df, si))
    /\ Float(SalesValue(RowAt(s_df, si))) # ValueError
    /\ out' = DictSet(out, SalesKey(RowAt(s_df, si)),
                      Float(SalesValue(RowAt(s_df, si))))
    /\ si' = si + 1
    /\ UNCHANGED <<pc, s_df, expVars, pnlVars, taxVars, uiVars>>

\* lines 102-103: float(v) raises and the except clause passes
SalesParseFails ==
    /\ SalesAtRow
    /\ SalesAccepts(RowAt(s_df, si))
    /\ Float(SalesValue(RowAt(s_df, si))) = ValueError
    /\ si' = si + 1
    /\ UNCHANGED <<pc, s_df, out, expVars, pnlVars, taxVars, uiVars>>

\* line 104
SalesReturn ==
    /\ pc = "parse_sales_summary"
    /\ si >= Len(s_df)
    /\ pc' = "done"
    /\ UNCHANGED <<salesVars, expVars, pnlVars, taxVars, uiVars>>

NextSales ==
    \/ SalesSkipRow
    \/ SalesStore
    \/ SalesParseFails
    \/ SalesReturn

SpecSales == InitSales /\ [][NextSales]_vars

\* The rows, among the first n, that parse successfully under label k.
C7_Rows(k, n) ==
    { r \in 0..(n - 1) :
        /\ Strip(Str(s_df[r + 1][1])) = k
        /\ k \notin {"", "nan"}
        /\ Len(s_df[r + 1]) > 1
        /\ s_df[r + 1][2] \notin {NaNCell, None}
        /\ Float(s_df[r + 1][2]) # ValueError }

C7_First(S) == CHOOSE r \in S : \A q \in S : r <= q
C7_Final(S) == CHOOSE r \in S : \A q \in S : r >= q

C7_KeysOnce ==
    \A m, n \in 1..Len(out) : out[m][1] = out[n][1] => m = n

\* C7 as stated: keys are unique and the value kept for a label is the one of
\* the first row that parsed under it.
C7_FirstSeenWins ==
    pc = "done" =>
        /\ C7_KeysOnce
        /\ \A n \in 1..Len(out) :
              LET S == C7_Rows(out[n][1], Len(s_df))
              IN  S # {} /\ out[n][2] = Float(s_df[C7_First(S) + 1][2])

\* C7 amended: keys are unique, the labels kept are exactly those with a row
\* that parsed, and the value kept is the one of the last such row.
C7_LastSeenWins ==
    pc = "done" =>
        /\ C7_KeysOnce
        /\ \A k \in { Strip(Str(s_df[r][1])) : r \in 1..Len(s_df) } :
              C7_Rows(k, Len(s_df)) # {} <=> k \in DictKeys(out)
        /\ \A n \in 1..Len(out) :
              LET S == C7_Rows(out[n][1], Len(s_df))
              IN  S # {} /\ out[n][2] = Float(s_df[C7_Final(S) + 1][2])

\* C7 witness: one label (written with and without a leading blank) parsed
\* in two rows with different values, and the parse has returned.
C7_Witness ==
    /\ pc = "done"
    /\ Len(s_df) = 3
    /\ s_df[1] = <<"Net Sales", "100">>
    /\ s_df[2] = <<"Tax", "abc">>
    /\ s_df[3] = <<" Net Sales", "250">>
    /\ out = << <<"Net Sales", <<"num", 250>> >> >>

\* ------------------------------------------------------------------------
\* build_report_and_tables
\* ------------------------------------------------------------------------

MaxLedger == 2

\* The sales summaries tried: each label absent or present with a value.
\* An optional value is <<>> (absent) or <<v>>.
NetSalesOptions == {<<>>, <<10000>>, <<-100>>}
TaxOptions == {<<>>, <<600>>}
PrepaymentOptions == {<<>>, <<50>>}
GratuityOptions == {<<>>, <<500>>}
FeesOptions == {<<>>, <<-150>>}

Entry(k, opt) == IF opt = <<>> THEN <<>> ELSE << <<k, opt[1]>> >>

SalesSummaries ==
    { Entry("Net Sales", n) \o Entry("Gratuity", g) \o Entry("Tax", t)
        \o Entry("Prepayments For Future Sales", p)
        \o Entry("Payment Processing Fees Paid By Business", f) :
        n \in NetSalesOptions, g \in GratuityOptions, t \in TaxOptions,
        p \in PrepaymentOptions, f \in FeesOptions }

\* The categories of the ledgers tried, in the order groupby sorts its keys.
Categories == <<"Back Bar", "Inventory", "Rent", "Supplies", "Wages">>
LedgerAmounts == {-50, 100}

\* build_report_and_tables reads Category and Amount of a record only.
LedgerRecords ==
    { [Category |-> Categories[c], Amount |-> a] :
        c \in 1..Len(Categories), a \in LedgerAmounts }

\* sales_summary.get(k, 0.0)
Get(d, k) == IF k \in DictKeys(d) THEN d[DictGet(d, k)][2] ELSE 0

\* abs(x)
Abs(x) == IF x < 0 THEN -x ELSE x

\* line 148
cogs_cats == <<"Back Bar", "Inventory">>
IsCogs(cat) == \E n \in 1..Len(cogs_cats) : cogs_cats[n] = cat

\* df["Amount"].sum()
RECURSIVE SumAmount(_)
SumAmount(df) ==
    IF df = <<>> THEN 0 ELSE df[1].Amount + SumAmount(Tail(df))

\* df[df["Category"] == cat]
OfCategory(df, cat) == SelectSeq(df, LAMBDA r : r.Category = cat)

\* lines 144-146
TotalRevMut(ss, tips) ==
    Get(ss, "Net Sales") + Get(ss, "Tax") + Get(ss, "Prepayments For Future Sales")
        + Get(ss, "Gratuity")

TotalRev(ss, tips) ==
    Get(ss, "Net Sales") + Get(ss, "Tax") + Get(ss, "Prepayments For Future Sales")
        + (IF tips THEN Get(ss, "Gratuity") ELSE 0)

\* lines 149-150
CogsDf(df) == SelectSeq(df, LAMBDA r : IsCogs(r.Category))
OpexDf(df) == SelectSeq(df, LAMBDA r : ~IsCogs(r.Category))

\* line 152
ProcessingFees(ss) == Abs(Get(ss, "Payment Processing Fees Paid By Business"))

\* line 155
TotalCogs(df) == SumAmount(CogsDf(df))
\* line 156
GrossMargin(ss, df, tips) == TotalRev(ss, tips) - TotalCogs(df)
\* line 157
TotalOpexMut(ss, df) == SumAmount(OpexDf(df)) + ProcessingFees(ss)

TotalOpex(ss, df) == SumAmount(OpexDf(df)) + ProcessingFees(ss) + Get(ss, "Tax")
\* line 158
NetProfit(ss, df, tips) == GrossMargin(ss, df, tips) - TotalOpex(ss, df)

\* A percentage is the exact ratio <<numerator, denominator>>.
\* (x / total_rev) if total_rev else 0
PctMut(x, total_rev) == IF total_rev > 0 THEN <<x, total_rev>> ELSE <<0, 1>>

PctPointsMut(x, total_rev) == IF total_rev # 0 THEN <<100 * x, total_rev>> ELSE <<0, 1>>

Pct(x, total_rev) == IF total_rev # 0 THEN <<x, total_rev>> ELSE <<0, 1>>

\* A table row is <<label, amount, percent>>; an empty cell ("") is <<>>.
Blank == <<>>
Row(label, amt, total_rev) == <<label, <<amt>>, Pct(amt, total_rev)>>
HeaderRow(label) == <<label, Blank, Blank>>

\* lines 173-176: one line per COGS category whose sum is above zero
RECURSIVE CogsLines(_, _, _)
CogsLines(df, total_rev, n) ==
    IF n > Len(cogs_cats) THEN <<>>
    ELSE LET amt == SumAmount(OfCategory(CogsDf(df), cogs_cats[n]))
         IN  (IF amt > 0
              THEN << Row("  " \o cogs_cats[n], amt, total_rev) >>
              ELSE <<>>) \o CogsLines(df, total_rev, n + 1)

\* line 190, groupby("Category")["Amount"].sum(): <<category, sum>> for each
\* category present, in key order
GroupSums(df) ==
    LET present == SelectSeq(Categories, LAMBDA c : OfCategory(df, c) # <<>>)
    IN  [n \in 1..Len(present) |-> <<present[n], SumAmount(OfCategory(df, present[n]))>>]

\* line 190, sort_values(ascending=False): descending by sum, equal sums
\* keeping their order
RECURSIVE InsertDescMut(_, _)
InsertDescMut(sorted, e) ==
    IF sorted = <<>> THEN <<e>>
    ELSE IF sorted[1][2] <= e[2] THEN <<sorted[1]>> \o InsertDescMut(Tail(sorted), e)
    ELSE <<e>> \o sorted

RECURSIVE InsertDesc(_, _)
InsertDesc(sorted, e) ==
    IF sorted = <<>> THEN <<e>>
    ELSE IF sorted[1][2] >= e[2] THEN <<sorted[1]>> \o InsertDesc(Tail(sorted), e)
    ELSE <<e>> \o sorted

RECURSIVE SortDesc(_)
SortDesc(series) ==
    IF series = <<>> THEN <<>>
    ELSE InsertDesc(SortDesc(SubSeq(series, 1, Len(series) - 1)), series[Len(series)])

\* lines 189-193
OpexLines(df, total_rev) ==
    LET cat_totals == SortDesc(GroupSums(OpexDf(df)))
    IN  [n \in 1..Len(cat_totals) |->
            Row("  " \o cat_totals[n][1], cat_totals[n][2], total_rev)]

\* lines 160-200
PnlData(ss, df, tips) ==
    LET total_rev == TotalRev(ss, tips)
    IN  << HeaderRow("REVENUE"),
           Row("  Net Sales", Get(ss, "Net Sales"), total_rev),
           Row("  Tax Collected", Get(ss, "Tax"), total_rev),
           Row("  Prepayments", Get(ss, "Prepayments For Future Sales"), total_rev) >>
        \o (IF tips THEN << Row("  Tips/Gratuity", Get(ss, "Gratuity"), total_rev) >>
                    ELSE <<>>)
        \o << <<"TOTAL REVENUE", <<total_rev>>, <<1, 1>> >>,
              HeaderRow(""),
              HeaderRow("COGS") >>
        \o CogsLines(df, total_rev, 1)
        \o << Row("TOTAL COGS", TotalCogs(df), total_rev),
              Row("GROSS MARGIN", GrossMargin(ss, df, tips), total_rev),
              HeaderRow(""),
              HeaderRow("OPERATING EXPENSES"),
              Row("  Sales Tax Paid Out", Get(ss, "Tax"), total_rev),
              Row("  Processing Fees", ProcessingFees(ss), total_rev) >>
        \o OpexLines(df, total_rev)
        \o << Row("TOTAL OPEX", TotalOpex(ss, df), total_rev),
              Row("NET PROFIT", NetProfit(ss, df, tips), total_rev) >>

\* f"{x:,.2f}" of a whole amount: the sign, the digits in groups of three,
\* two decimals
Pad3(n) ==
    IF n < 10 THEN "00" \o ToString(n)
    ELSE IF n < 100 THEN "0" \o ToString(n)
    ELSE ToString(n)

RECURSIVE Grouped(_)
Grouped(n) ==
    IF n < 1000 THEN ToString(n)
    ELSE Grouped(n \div 1000) \o "," \o Pad3(n % 1000)

FormatAmount(x) == (IF x < 0 THEN "-" ELSE "") \o Grouped(Abs(x)) \o ".00"

\* f"{(p*100):.1f}%": the ratio in tenths of a percent, rounded to nearest;
\* the sign is that of the float quotient, so 0 / -100 prints as -0.0%
FormatPct(p) ==
    LET tenths == (2 * 1000 * Abs(p[1]) + Abs(p[2])) \div (2 * Abs(p[2]))
    IN  (IF (p[1] < 0) # (p[2] < 0) THEN "-" ELSE "")
            \o ToString(tenths \div 10) \o "." \o ToString(tenths % 10) \o "%"

\* Python truth of a table cell: "" and 0 are false
Falsy(cell) == cell = Blank \/ cell[1] = 0

\* lines 207-213: the text line of one table row
RenderRow(row) ==
    IF row[1] # "" /\ Falsy(row[2]) /\ Falsy(row[3])
    THEN [kind |-> "header", desc |-> row[1], amount |-> "", pct |-> ""]
    ELSE IF row[1] = ""
    THEN [kind |-> "rule", desc |-> "", amount |-> "", pct |-> ""]
    ELSE [kind |-> "line", desc |-> row[1],
          amount |-> FormatAmount(row[2][1]), pct |-> FormatPct(row[3])]

\* lines 202-205 and 215: the four lines above the table rows, the line below
ReportHead ==
    << [kind |-> "title", desc |-> "PROFIT & LOSS STATEMENT - All Year",
        amount |-> "", pct |-> ""],
       [kind |-> "top", desc |-> "", amount |-> "", pct |-> ""],
       [kind |-> "line", desc |-> "DESCRIPTION", amount |-> "AMOUNT ($)",
        pct |-> "% OF REV"],
       [kind |-> "double rule", desc |-> "", amount |-> "", pct |-> ""] >>
ReportFoot == << [kind |-> "bottom", desc |-> "", amount |-> "", pct |-> ""] >>

\* lines 202-215
Render(table) ==
    ReportHead \o [n \in 1..Len(table) |-> RenderRow(table[n])] \o ReportFoot

InitPnL ==
    /\ pc = "build_report_and_tables"
    /\ sales_summary \in SalesSummaries
    /\ expenses_df \in Tables(LedgerRecords, MaxLedger)
    /\ include_tips \in BOOLEAN
    /\ last_pnl_data = <<>> /\ rep = <<>> /\ net_profit = 0
    /\ IdleExpenses /\ IdleSales /\ IdleTax /\ IdleSession

\* lines 138-216
BuildReportAndTables ==
    /\ pc = "build_report_and_tables"
    /\ last_pnl_data' = PnlData(sales_summary, expenses_df, include_tips)
    /\ rep' = Render(last_pnl_data')
    /\ net_profit' = NetProfit(sales_summary, expenses_df, include_tips)
    /\ pc' = "done"
    /\ UNCHANGED <<sales_summary, expenses_df, include_tips, expVars, salesVars, taxVars, uiVars>>

NextPnL == BuildReportAndTables

SpecPnL == InitPnL /\ [][NextPnL]_vars

\* ------------------------------------------------------------------------
\* calc_hanover_tax_text
\*
\* The source computes in binary floating point.  Here an amount is a whole
\* number of cents, a rate a whole number of tenths of a percent (the two
\* inputs step by 0.5 and 0.1), and every product is rounded down to a cent.
\* ------------------------------------------------------------------------

\* The profits tried, in cents: a loss, zero, the spec's 10350.00, and the
\* amounts around the 12000.00 threshold.
NetValues ==
    {-5000 * 100, 0, 10350 * 100, 12000 * 100 - 1, 12000 * 100, 12000 * 100 + 1,
     25000 * 100}
FedRates == {0, 120, 225}
LocalRates == {0, 10, 35}

\* floor(a * b / c), without forming a * b
MulDiv(a, b, c) == (a \div c) * b + ((a % c) * b) \div c

\* max(0, x)
Max0(x) == IF x > 0 THEN x ELSE 0

\* line 220: (net * 0.9235) * 0.153
SeTax(n) == MulDiv(MulDiv(n, 9235, 10000), 153, 1000)
\* line 221: max(0, net - (se_tax * 0.5)) * (fed_income_rate / 100)
FedInc(n, fed) == MulDiv(Max0(n - MulDiv(SeTax(n), 5, 10)), fed, 1000)
\* line 222: net * 0.0307
PaState(n) == MulDiv(n, 307, 10000)
\* line 223: net * (local_eit_rate / 100)
PaLocal(n, loc) == MulDiv(n, loc, 1000)
\* line 224: 52.0 if net > 12000 else 0
LstMut(n) == IF n >= 12000 * 100 THEN 52 * 100 ELSE 0

Lst(n) == IF n > 12000 * 100 THEN 52 * 100 ELSE 0
\* line 225
TotalTaxMut(n, fed, loc) ==
    SeTax(n) + FedInc(n, fed) + PaState(n) + PaLocal(n, loc)

TotalTax(n, fed, loc) ==
    SeTax(n) + FedInc(n, fed) + PaState(n) + PaLocal(n, loc) + Lst(n)

\* f"{x:,.2f}" of an amount in cents
Pad2(n) == IF n < 10 THEN "0" \o ToString(n) ELSE ToString(n)
FormatCents(x) ==
    (IF x < 0 THEN "-" ELSE "") \o Grouped(Abs(x) \div 100)
        \o "." \o Pad2(Abs(x) % 100)

\* f"{rate}" of a rate in tenths of a percent
FormatRate(r) == ToString(r \div 10) \o "." \o ToString(r % 10)

\* lines 227-243, without the rules and the "Report Generated" line, which
\* carries the wall-clock time and nothing computed
TaxText(n, fed, loc) ==
    << "ESTIMATED TAX LIABILITY (HANOVER, PA)",
       "Business Profit:  $" \o FormatCents(n),
       "Fed SE Tax (15.3%): $" \o FormatCents(SeTax(n)),
       "Fed Income Tax (" \o FormatRate(fed) \o "%): $" \o FormatCents(FedInc(n, fed)),
       "PA State Tax (3.07%): $" \o FormatCents(PaState(n)),
       "Hanover Local EIT (" \o FormatRate(loc) \o "%): $" \o FormatCents(PaLocal(n, loc)),
       "PA Local Services Tax (LST): $" \o FormatCents(Lst(n)),
       "TOTAL ESTIMATED TAX DUE: $" \o FormatCents(TotalTax(n, fed, loc)),
       "ESTIMATED TAKE-HOME: $" \o FormatCents(n - TotalTax(n, fed, loc)) >>

InitTax ==
    /\ pc = "calc_hanover_tax_text"
    /\ net \in NetValues
    /\ fed_income_rate \in FedRates
    /\ local_eit_rate \in LocalRates
    /\ tax = <<>> /\ txt = <<>>
    /\ IdleExpenses /\ IdleSales /\ IdlePnL /\ IdleSession

\* lines 219-244
CalcHanoverTaxText ==
    /\ pc = "calc_hanover_tax_text"
    /\ tax' = [se_tax |-> SeTax(net),
               fed_inc |-> FedInc(net, fed_income_rate),
               pa_state |-> PaState(net),
               pa_local |-> PaLocal(net, local_eit_rate),
               lst |-> Lst(net),
               total_tax |-> TotalTax(net, fed_income_rate, local_eit_rate)]
    /\ txt' = TaxText(net, fed_income_rate, local_eit_rate)
    /\ pc' = "done"
    /\ UNCHANGED <<net, fed_income_rate, local_eit_rate, expVars, salesVars, pnlVars, uiVars>>

NextTax == CalcHanoverTaxText

SpecTax == InitTax /\ [][NextTax]_vars

\* C6: the local services tax is 52.00 exactly when the profit is above
\* 12000.00 and 0 otherwise (12000.00 gives 0, one cent more gives 52.00,
\* 10350.00 gives 0), and the total is the sum of the five taxes.
C6_LstAboveThreshold ==
    (pc = "done" /\ tax # <<>>) =>
        /\ tax.lst = 5200 <=> net > 1200000
        /\ tax.lst = 0 <=> net <= 1200000
        /\ net = 1200000 => tax.lst = 0
        /\ net = 1200001 => tax.lst = 5200
        /\ net = 1035000 => tax.lst = 0
        /\ tax.total_tax =
              tax.se_tax + tax.fed_inc + tax.pa_state + tax.pa_local + tax.lst

\* C6 witness: the tax of a profit one cent above the threshold, at 12% and
\* 1%, has been computed and carries the 52.00.
C6_Witness ==
    /\ pc = "done"
    /\ net = 1200001
    /\ fed_income_rate = 120 /\ local_eit_rate = 10
    /\ tax.lst = 5200
    /\ tax.total_tax > 5200

\* ------------------------------------------------------------------------
\* build_report_and_tables: properties
\* ------------------------------------------------------------------------

Built == pc = "done" /\ last_pnl_data # <<>>

\* Reading the inputs and the table as the claims do.
Summary(k) ==
    IF \E n \in 1..Len(sales_summary) : sales_summary[n][1] = k
    THEN sales_summary[CHOOSE n \in 1..Len(sales_summary) : sales_summary[n][1] = k][2]
    ELSE 0

RECURSIVE LedgerSum(_, _)
LedgerSum(n, cats) ==
    IF n = 0 THEN 0
    ELSE LedgerSum(n - 1, cats)
            + (IF expenses_df[n].Category \in cats THEN expenses_df[n].Amount ELSE 0)

LedgerCategories == { expenses_df[n].Category : n \in 1..Len(expenses_df) }
CogsSet == {"Back Bar", "Inventory"}

totalRevenue ==
    Summary("Net Sales") + Summary("Tax") + Summary("Prepayments For Future Sales")
        + (IF include_tips THEN Summary("Gratuity") ELSE 0)

\* The index of the row with a label, and that row's amount.
RowOf(label) == CHOOSE n \in 1..Len(last_pnl_data) : last_pnl_data[n][1] = label
AmountOf(label) == last_pnl_data[RowOf(label)][2][1]

\* Rows carrying a label and an amount.
AmountRows ==
    { n \in 1..Len(last_pnl_data) :
        last_pnl_data[n][1] # "" /\ last_pnl_data[n][2] # <<>> }

\* percent = amount / totalRevenue, or 0 when totalRevenue is 0
PercentIsRatio(n) ==
    LET amount == last_pnl_data[n][2][1]
        percent == last_pnl_data[n][3]
    IN  /\ percent # <<>>
        /\ percent[2] # 0
        /\ totalRevenue # 0 => percent[1] * totalRevenue = amount * percent[2]
        /\ totalRevenue = 0 => percent[1] = 0

\* C2 as stated: every row with a label and an amount has
\* percent = amount / totalRevenue, or 0 when totalRevenue is 0.
C2_EveryPercentIsRatio ==
    Built => \A n \in AmountRows : PercentIsRatio(n)

\* C2 amended: the same for every such row but TOTAL REVENUE, whose percent is
\* 1 whatever totalRevenue is (0 included).
C2_PercentIsRatioButTotal ==
    Built =>
        \A n \in AmountRows :
            IF last_pnl_data[n][1] = "TOTAL REVENUE"
            THEN last_pnl_data[n][3][1] = last_pnl_data[n][3][2]
            ELSE PercentIsRatio(n)

\* C2 witness: a table built on a total revenue of zero (tips left out)
\* whose NET PROFIT amount is not zero, so a non-zero amount has percent 0.
C2_Witness ==
    /\ Built
    /\ totalRevenue = 0
    /\ Summary("Gratuity") = 500
    /\ AmountOf("NET PROFIT") # 0

\* C3: the identities between the totals of the table, the totals defined
\* from the inputs, and the scalar returned.
C3_ProfitIdentities ==
    Built =>
        /\ AmountOf("TOTAL REVENUE") = totalRevenue
        /\ AmountOf("TOTAL COGS") = LedgerSum(Len(expenses_df), CogsSet)
        /\ AmountOf("TOTAL OPEX") =
              LedgerSum(Len(expenses_df), LedgerCategories \ CogsSet)
                + (IF Summary("Payment Processing Fees Paid By Business") < 0
                   THEN -Summary("Payment Processing Fees Paid By Business")
                   ELSE Summary("Payment Processing Fees Paid By Business"))
                + Summary("Tax")
        /\ AmountOf("GROSS MARGIN") = AmountOf("TOTAL REVENUE") - AmountOf("TOTAL COGS")
        /\ AmountOf("NET PROFIT") = AmountOf("GROSS MARGIN") - AmountOf("TOTAL OPEX")
        /\ net_profit = AmountOf("NET PROFIT")
        /\ (/\ Summary("Net Sales") = 10000 /\ Summary("Tax") = 600
            /\ Summary("Prepayments For Future Sales") = 0
            /\ Summary("Gratuity") = 500
            /\ Summary("Payment Processing Fees Paid By Business") = -150
            /\ include_tips /\ expenses_df = <<>>) => net_profit = 10350

\* C3 witness: the spec's end-to-end scenario.
C3_Witness ==
    /\ Built
    /\ Summary("Net Sales") = 10000 /\ Summary("Tax") = 600
    /\ Summary("Gratuity") = 500
    /\ Summary("Payment Processing Fees Paid By Business") = -150
    /\ Summary("Prepayments For Future Sales") = 0
    /\ include_tips /\ expenses_df = <<>>
    /\ AmountOf("TOTAL REVENUE") = 11100
    /\ AmountOf("TOTAL OPEX") = 750
    /\ net_profit = 10350

\* The per-category OPEX lines: the rows after "  Processing Fees", which
\* is two rows below the OPERATING EXPENSES header, and before TOTAL OPEX,
\* the last row but one.
OpexFirst == RowOf("OPERATING EXPENSES") + 3
OpexLast == Len(last_pnl_data) - 2

\* C4: the per-category OPEX lines are one line for each non-COGS category
\* of the ledger, each with the category's summed amount, in descending order
\* of amount.
C4_OpexLinesSorted ==
    Built =>
        /\ last_pnl_data[OpexFirst - 1][1] = "  Processing Fees"
        /\ last_pnl_data[OpexLast + 1][1] = "TOTAL OPEX"
        /\ \A c \in LedgerCategories \ CogsSet :
              \E n \in OpexFirst..OpexLast :
                /\ last_pnl_data[n][1] = "  " \o c
                /\ last_pnl_data[n][2][1] = LedgerSum(Len(expenses_df), {c})
                /\ \A m \in OpexFirst..OpexLast :
                      last_pnl_data[m][1] = "  " \o c => m = n
        /\ \A n \in OpexFirst..OpexLast :
              \E c \in LedgerCategories \ CogsSet : last_pnl_data[n][1] = "  " \o c
        /\ \A n \in OpexFirst..(OpexLast - 1) :
              last_pnl_data[n][2][1] >= last_pnl_data[n + 1][2][1]

\* C4 witness: two OPEX categories whose key order (Rent, Supplies) is not
\* their order by amount, beside a COGS record.
C4_Witness ==
    /\ Built
    /\ OpexLast = OpexFirst + 1
    /\ last_pnl_data[OpexFirst][1] = "  Supplies"
    /\ last_pnl_data[OpexFirst + 1][1] = "  Rent"
    /\ last_pnl_data[OpexFirst][2][1] > last_pnl_data[OpexFirst + 1][2][1]

\* The text line of table row n: the report has four lines above the rows.
LineOf(n) == rep[Len(ReportHead) + n]

\* C5: a row is rendered as a section header exactly when it has a label and
\* no amount, as a rule exactly when it has no label, and every row with an
\* amount, zero included, shows its formatted amount and percent.
C5_RenderedByContent ==
    Built =>
        /\ Len(rep) = Len(last_pnl_data) + 5
        /\ \A n \in 1..Len(last_pnl_data) :
              LET label == last_pnl_data[n][1]
                  amount == last_pnl_data[n][2]
              IN  /\ LineOf(n).kind = "header" <=> (label # "" /\ amount = <<>>)
                  /\ LineOf(n).kind = "rule" <=> label = ""
                  /\ amount # <<>> =>
                        /\ LineOf(n).kind = "line"
                        /\ LineOf(n).amount # ""
                        /\ LineOf(n).pct # ""

\* A percent within [0, 1].
InUnit(percent) ==
    IF percent[2] > 0
    THEN 0 <= percent[1] /\ percent[1] <= percent[2]
    ELSE percent[2] < 0 /\ percent[2] <= percent[1] /\ percent[1] <= 0

PercentRows == { n \in 1..Len(last_pnl_data) : last_pnl_data[n][3] # <<>> }

\* C8 as stated: every percent of the table is within [0, 1].
C8_EveryPercentInUnit ==
    Built => \A n \in PercentRows : InUnit(last_pnl_data[n][3])

\* An amount between 0 and totalRevenue, whichever sign totalRevenue has.
WithinRevenue(amount) ==
    \/ 0 <= amount /\ amount <= totalRevenue
    \/ totalRevenue <= amount /\ amount <= 0

\* C8 amended: a percent is within [0, 1] whenever totalRevenue is 0, or the
\* row is TOTAL REVENUE, or the row's amount lies between 0 and totalRevenue.
C8_PercentInUnitWithinRevenue ==
    Built =>
        \A n \in PercentRows :
            (\/ totalRevenue = 0
             \/ last_pnl_data[n][1] = "TOTAL REVENUE"
             \/ WithinRevenue(last_pnl_data[n][2][1]))
                => InUnit(last_pnl_data[n][3])

\* C8 witness: expenses above a positive revenue, so that NET PROFIT is
\* negative and TOTAL OPEX exceeds the revenue, beside rows within it.
C8_Witness ==
    /\ Built
    /\ totalRevenue > 0
    /\ AmountOf("NET PROFIT") < 0
    /\ AmountOf("TOTAL OPEX") > totalRevenue
    /\ ~InUnit(last_pnl_data[RowOf("NET PROFIT")][3])
    /\ InUnit(last_pnl_data[RowOf("  Tax Collected")][3])

\* The sum of the amounts of the rows from..to.
RECURSIVE SumRows(_, _)
SumRows(from, to) ==
    IF from > to THEN 0 ELSE last_pnl_data[from][2][1] + SumRows(from + 1, to)

\* C10: TOTAL COGS is the sum of the COGS lines shown between the COGS header
\* and TOTAL COGS, for every ledger, refunds (negative amounts) included.
C10_TotalCogsIsSumOfLines ==
    Built =>
        AmountOf("TOTAL COGS") = SumRows(RowOf("COGS") + 1, RowOf("TOTAL COGS") - 1)

\* ------------------------------------------------------------------------
\* The page: session state and the button handlers (lines 390-510)
\*
\* Streamlit reruns the script on every interaction.  A run in which no
\* button was pressed changes no stored result and shows no message box.
\* An uploader holds <<>> (None) or <<file>>; so do sales_df and exp_df_raw.
\* include_tips, fed_income_rate and local_eit_rate are the widgets' values
\* (lines 499 and 503 copy the rates into st.session_state in every run);
\* last_pnl_data and net_profit are the copies kept in st.session_state.
\* ------------------------------------------------------------------------

\* parse_sales_summary as a whole: the loop of lines 96-103 from row r on
RECURSIVE ParseSalesFrom(_, _, _)
ParseSalesFrom(df, r, d) ==
    IF r >= Len(df) THEN d
    ELSE LET row == RowAt(df, r)
         IN  IF SalesAccepts(row) /\ Float(SalesValue(row)) # ValueError
             THEN ParseSalesFrom(df, r + 1,
                                 DictSet(d, SalesKey(row), Float(SalesValue(row))))
             ELSE ParseSalesFrom(df, r + 1, d)

ParseSalesSummary(df) == ParseSalesFrom(df, 0, <<>>)

\* parse_expenses as a whole: the loop of lines 111-129 from row r on
RECURSIVE ParseExpensesFrom(_, _, _, _)
ParseExpensesFrom(df, r, cat, list) ==
    IF r >= Len(df) THEN list
    ELSE IF IsTotalRow(C0(df, r)) \/ ~IsCandidate(C0(df, r))
         THEN ParseExpensesFrom(df, r + 1, cat, list)
    ELSE IF NextIsVendor(df, r)
         THEN ParseExpensesFrom(df, r + 1, C0(df, r), list)
    ELSE IF Truthy(cat)
         THEN ParseExpensesFrom(df, r + 1, cat,
                                list \o TryRow(cat, RowAt(df, r)).appended)
    ELSE ParseExpensesFrom(df, r + 1, cat, list)

ParseExpenses(df) == ParseExpensesFrom(df, 0, None, <<>>)

\* The parsers' results as build_report_and_tables reads them: the number
\* float() gave for each label, and Category and Amount of each record, a
\* NaN amount counting as 0 because the pandas sums of lines 155, 157, 174
\* and 190 skip NaN.
AsSummary(d) == [n \in 1..Len(d) |-> <<d[n][1], d[n][2][2]>>]
AsLedger(list) ==
    [n \in 1..Len(list) |->
        [Category |-> list[n].Category,
         Amount |-> IF list[n].Amount[1] = "nan" THEN 0 ELSE list[n].Amount[2]]]

\* The profit, a whole amount, in the cents calc_hanover_tax_text is
\* modelled in.
ToCents(x) == x * 100

\* The files a user may upload.  raises: pd.read_csv / pd.read_excel raises
\* on the file (an empty file, say).
SalesFiles ==
    { [name |-> "sales.csv", raises |-> FALSE,
       rows |-> << <<"Net Sales", "250">>, <<"Gratuity", "100">>, <<"Tax", "abc">> >>],
      [name |-> "sales.xlsx", raises |-> FALSE,
       rows |-> << <<" Net Sales", "100">>, <<"Tax", "100">>, <<"Net Sales", "1200.00">> >>],
      [name |-> "empty.csv", raises |-> TRUE, rows |-> <<>>] }

ExpenseFiles ==
    { [name |-> "expenses.csv", raises |-> FALSE,
       rows |-> << <<"Expense Report", NaNCell, NaNCell, NaNCell>>,
                   <<" Back Bar ", NaNCell, NaNCell, NaNCell>>,
                   <<"Vendor", "Memo", "Date", "Amount">>,
                   <<"Acme", "lashes", "2024-01-05", "1,200.00">>,
                   <<"Bolt", "misc", "2024-02-01", NaNCell>> >>],
      [name |-> "expenses.xlsx", raises |-> FALSE,
       rows |-> << <<"Rent", NaNCell, NaNCell, NaNCell>>,
                   <<"Vendor", "Memo", "Date", "Amount">>,
                   <<"Acme", "glue", "n/a", "100">>,
                   <<"Landlord", "march", "2024-02-01", "250">>,
                   <<"Total", NaNCell, NaNCell, "$1,300.00">> >>],
      [name |-> "empty.csv", raises |-> TRUE, rows |-> <<>>] }

\* lines 434-442: the table read from an uploaded file, by either reader
ReadFile(f) == f.rows

\* lines 456-458: the tax text GENERATE REPORT stores, from the profit just
\* computed and the rates of the session
GenerateTaxTextMut(profit, fed, loc) == tax_text

GenerateTaxText(profit, fed, loc) == TaxText(ToCents(profit), fed, loc)

\* lines 390-401, and the widgets' defaults of lines 425, 498 and 502
InitSession ==
    /\ pc = "page"
    /\ sales_file = <<>> /\ exp_file = <<>>
    /\ include_tips = TRUE
    /\ sales_df = <<>> /\ exp_df_raw = <<>>
    /\ report_text = <<>>
    /\ last_pnl_data = <<>>
    /\ net_profit = 0
    /\ tax_text = <<>>
    /\ fed_income_rate = 120 /\ local_eit_rate = 10
    /\ message = ""
    /\ IdleExpenses /\ IdleSales
    /\ sales_summary = <<>> /\ expenses_df = <<>> /\ rep = <<>>
    /\ net = 0 /\ tax = <<>> /\ txt = <<>>

\* What no handler of the page writes.
pageIdle == <<expVars, salesVars, sales_summary, expenses_df, rep, net, tax, txt>>
stored == <<sales_df, exp_df_raw, report_text, last_pnl_data, net_profit, tax_text>>

\* lines 421, 423: a file is put into, or taken out of, an uploader
UploadSales ==
    /\ pc = "page"
    /\ sales_file' \in {<<>>} \cup { <<f>> : f \in SalesFiles }
    /\ sales_file' # sales_file
    /\ message' = ""
    /\ UNCHANGED <<pc, exp_file, include_tips, fed_income_rate, local_eit_rate,
                   stored, pageIdle>>

UploadExpenses ==
    /\ pc = "page"
    /\ exp_file' \in {<<>>} \cup { <<f>> : f \in ExpenseFiles }
    /\ exp_file' # exp_file
    /\ message' = ""
    /\ UNCHANGED <<pc, sales_file, include_tips, fed_income_rate, local_eit_rate,
                   stored, pageIdle>>

\* line 425
ToggleIncludeTips ==
    /\ pc = "page"
    /\ include_tips' = ~include_tips
    /\ message' = ""
    /\ UNCHANGED <<pc, sales_file, exp_file, fed_income_rate, local_eit_rate,
                   stored, pageIdle>>

\* lines 429-431: GENERATE REPORT with a file missing
GenerateMissingFile ==
    /\ pc = "page"
    /\ sales_file = <<>> \/ exp_file = <<>>
    /\ message' = "Load both files first!"
    /\ UNCHANGED <<pc, sales_file, exp_file, include_tips, fed_income_rate,
                   local_eit_rate, stored, pageIdle>>

\* lines 434-442: GENERATE REPORT with both files, one of which the reader
\* raises on; the run ends there, before line 444
GenerateReadRaises ==
    /\ pc = "page"
    /\ sales_file # <<>> /\ exp_file # <<>>
    /\ sales_file[1].raises \/ exp_file[1].raises
    /\ message' = "exception"
    /\ UNCHANGED <<pc, sales_file, exp_file, include_tips, fed_income_rate,
                   local_eit_rate, stored, pageIdle>>

\* lines 429-461: GENERATE REPORT with both files
GenerateReport ==
    /\ pc = "page"
    /\ sales_file # <<>> /\ exp_file # <<>>
    /\ ~sales_file[1].raises /\ ~exp_file[1].raises
    /\ LET s_read == ReadFile(sales_file[1])
           e_read == ReadFile(exp_file[1])
           summary == AsSummary(ParseSalesSummary(s_read))
           ledger == AsLedger(ParseExpenses(e_read))
           table == PnlData(summary, ledger, include_tips)
           profit == NetProfit(summary, ledger, include_tips)
       IN  /\ sales_df' = <<s_read>>
           /\ exp_df_raw' = <<e_read>>
           /\ report_text' = Render(table)
           /\ last_pnl_data' = table
           /\ net_profit' = profit
           /\ tax_text' = GenerateTaxText(profit, fed_income_rate, local_eit_rate)
    /\ message' = "Report generated!"
    /\ UNCHANGED <<pc, sales_file, exp_file, include_tips, fed_income_rate,
                   local_eit_rate, pageIdle>>

\* lines 498-499
ChangeFedRate ==
    /\ pc = "page"
    /\ fed_income_rate' \in FedRates \ {fed_income_rate}
    /\ message' = ""
    /\ UNCHANGED <<pc, sales_file, exp_file, include_tips, local_eit_rate,
                   stored, pageIdle>>

\* lines 502-503
ChangeLocalRate ==
    /\ pc = "page"
    /\ local_eit_rate' \in LocalRates \ {local_eit_rate}
    /\ message' = ""
    /\ UNCHANGED <<pc, sales_file, exp_file, include_tips, fed_income_rate,
                   stored, pageIdle>>

\* lines 505-508: RECALCULATE
Recalculate ==
    /\ pc = "page"
    /\ tax_text' = TaxText(ToCents(net_profit), fed_income_rate, local_eit_rate)
    /\ message' = "Tax recalculated!"
    /\ UNCHANGED <<pc, sales_file, exp_file, include_tips, fed_income_rate,
                   local_eit_rate, sales_df, exp_df_raw, report_text,
                   last_pnl_data, net_profit, pageIdle>>

NextSession ==
    \/ UploadSales
    \/ UploadExpenses
    \/ ToggleIncludeTips
    \/ GenerateMissingFile
    \/ GenerateReadRaises
    \/ GenerateReport
    \/ ChangeFedRate
    \/ ChangeLocalRate
    \/ Recalculate

SpecSession == InitSession /\ [][NextSession]_vars

\* ------------------------------------------------------------------------
\* Properties of the page
\* ------------------------------------------------------------------------

\* The stored tax text is the text for the stored net profit at some rates
\* the two inputs can hold.
TaxTextOfStoredProfit ==
    \E fed \in FedRates, loc \in LocalRates :
        tax_text = TaxText(ToCents(net_profit), fed, loc)

\* A step in which GENERATE REPORT found a file missing.
RefusedGenerate ==
    /\ sales_file = <<>> \/ exp_file = <<>>
    /\ message' = "Load both files first!"

\* C11: after any sequence of page actions the stored tax text is empty or
\* is the tax text computed from the net profit stored now, and a GENERATE
\* REPORT with a file missing changes none of the stored report text, P&L
\* table, net profit and tax text.
C11_TaxTextFollowsNetProfit ==
    /\ [](tax_text = <<>> \/ TaxTextOfStoredProfit)
    /\ [][RefusedGenerate =>
             UNCHANGED <<report_text, last_pnl_data, net_profit, tax_text>>]_vars

\* A report was generated at 12.0% and 1.0%, the federal rate was changed
\* afterwards, a file was taken out and GENERATE REPORT pressed again: the
\* refusal is on the page and the results of the earlier report are kept.
C11_Witness ==
    /\ message = "Load both files first!"
    /\ sales_file = <<>> \/ exp_file = <<>>
    /\ report_text # <<>> /\ last_pnl_data # <<>> /\ net_profit # 0
    /\ fed_income_rate = 225
    /\ tax_text = TaxText(ToCents(net_profit), 120, 10)

====
